---- MODULE Spec2Model ----
(***************************************************************************)
(* Benefit calculator: DataProcessorAgent (ingestion and unification),     *)
(* EligibilityCalculatorAgent (rules, payout, summary, histogram) and      *)
(* CoordinatorAgent (the three-node graph), modelled from the sources      *)
(* under src/agents.                                                       *)
(*                                                                         *)
(* Conventions of the model                                                *)
(*  - A cell value is NaN (pandas' missing value), Num(n) or Str(text).    *)
(*  - A text is a sequence of chunks. A chunk is ";" , " " (one white      *)
(*    space character), a single decimal digit, or a run of characters     *)
(*    holding none of these, so that split(';'), strip() and float() can   *)
(*    be computed chunk by chunk as Python computes them character by      *)
(*    character.                                                           *)
(*  - A DataFrame is its set of column labels and its sequence of rows,    *)
(*    each row a function from the column labels to cell values. Column    *)
(*    labels of one frame are distinct, and the row labels produced by     *)
(*    pd.concat(ignore_index=True) are distinct, so that addressing a row  *)
(*    by label (df.at) and by position coincide.                           *)
(*  - Amounts are integers (float values with no fractional part).         *)
(***************************************************************************)
EXTENDS Integers, Sequences, FiniteSets, TLC

VARIABLES pc, call, state, engine, analysis_agent, result, visited

vars == <<pc, call, state, engine, analysis_agent, result, visited>>

(***************************************************************************)
(* Bounds of the model                                                     *)
(***************************************************************************)
MaxFiles == 2
MaxRows == 2

(***************************************************************************)
(* Cell values and texts                                                   *)
(***************************************************************************)
NaN == [null |-> TRUE]
Num(n) == [num |-> n]
Str(s) == [str |-> s]

IsNum(v) == DOMAIN v = {"num"}
IsStr(v) == DOMAIN v = {"str"}

\* Python's None, and the str values used as error descriptors
None == "<None>"

notna(v) == v # NaN

Word(w) == Str(<<w>>)

Digits == <<"0", "1", "2", "3", "4", "5", "6", "7", "8", "9">>

IsDigit(ch) == \E i \in 1..Len(Digits) : Digits[i] = ch

DigitValue(ch) == (CHOOSE i \in 1..Len(Digits) : Digits[i] = ch) - 1

IsSpace(ch) == ch = " "

RECURSIVE lstrip(_)
lstrip(t) == IF t # <<>> /\ IsSpace(Head(t)) THEN lstrip(Tail(t)) ELSE t

RECURSIVE rstrip(_)
rstrip(t) ==
    IF t # <<>> /\ IsSpace(t[Len(t)]) THEN rstrip(SubSeq(t, 1, Len(t) - 1)) ELSE t

\* str.strip()
strip(t) == rstrip(lstrip(t))

\* str.split(sep): the pieces between the occurrences of sep, empty ones kept
RECURSIVE split(_, _)
split(t, sep) ==
    IF \A i \in 1..Len(t) : t[i] # sep
    THEN <<t>>
    ELSE LET i == CHOOSE k \in 1..Len(t) :
                     t[k] = sep /\ \A j \in 1..(k - 1) : t[j] # sep
         IN <<SubSeq(t, 1, i - 1)>> \o split(SubSeq(t, i + 1, Len(t)), sep)

\* sep.join(parts)
RECURSIVE join(_, _)
join(sep, parts) ==
    IF parts = <<>> THEN <<>>
    ELSE IF Len(parts) = 1 THEN parts[1]
    ELSE parts[1] \o sep \o join(sep, Tail(parts))

RECURSIVE DecimalValue(_, _)
DecimalValue(t, acc) ==
    IF t = <<>> THEN acc ELSE DecimalValue(Tail(t), 10 * acc + DigitValue(Head(t)))

\* float(v) of a cell that is not NaN: the number itself, or the text parsed
\* after stripping white space; raises ValueError on any other text
float(v) ==
    IF IsNum(v) THEN [raised |-> FALSE, value |-> v.num]
    ELSE LET t == strip(v.str)
         IN IF t # <<>> /\ \A i \in 1..Len(t) : IsDigit(t[i])
            THEN [raised |-> FALSE, value |-> DecimalValue(t, 0)]
            ELSE [raised |-> TRUE, value |-> 0]

(***************************************************************************)
(* DataFrames                                                              *)
(***************************************************************************)
DataFrame(cols, rows) == [cols |-> cols, rows |-> rows]

\* pd.DataFrame()
EmptyDataFrame == DataFrame({}, <<>>)

\* Faulty variant: only a frame with no column is empty
empty_no_columns(df) == df.cols = {}

\* df.empty
empty(df) == df.cols = {} \/ df.rows = <<>>

len(df) == Len(df.rows)

\* df[df[col] == value]: the rows whose cell in col equals value, in order
RowsWhere(df, col, value) ==
    DataFrame(df.cols, SelectSeq(df.rows, LAMBDA r : r[col] = value))

\* df[col] = value for every row (the column is added or overwritten)
SetColumn(df, col, value) ==
    DataFrame(df.cols \cup {col},
              [i \in 1..Len(df.rows) |->
                  [c \in df.cols \cup {col} |->
                      IF c = col THEN value ELSE df.rows[i][c]]])

(***************************************************************************)
(* DataProcessorAgent                                                      *)
(***************************************************************************)
\* str.lower() on the column labels of the model
lower(col) ==
    CASE col = "MATRICULA" -> "matricula"
      [] col = "Matricula" -> "matricula"
      [] col = "EMPRESA" -> "empresa"
      [] col = "Titulo_Cargo" -> "titulo_cargo"
      [] col = "TITULO DO CARGO" -> "titulo do cargo"
      [] col = "Titulo do Cargo" -> "titulo do cargo"
      [] col = "DESC_SITUACAO" -> "desc_situacao"
      [] col = "DESC. SITUACAO" -> "desc. situacao"
      [] col = "Sindicato" -> "sindicato"
      [] col = "SINDICATO" -> "sindicato"
      [] col = "Nome" -> "nome"
      [] col = "Cargo" -> "cargo"
      [] col = "Status" -> "status"
      [] col = "Valor_Beneficio_Base" -> "valor_beneficio_base"
      [] col = "Elegivel" -> "elegivel"
      [] col = "Motivo_Inelegibilidade" -> "motivo_inelegibilidade"
      [] col = "Ajuste_Sindicato" -> "ajuste_sindicato"
      [] col = "Valor_Beneficio_Final" -> "valor_beneficio_final"
      [] OTHER -> col

\* column_mapping.get(str(col).lower(), col)
column_mapping(col) ==
    CASE lower(col) = "matricula" -> "MATRICULA"
      [] lower(col) = "empresa" -> "EMPRESA"
      [] lower(col) = "titulo_cargo" -> "TITULO DO CARGO"
      [] lower(col) = "desc_situacao" -> "DESC. SITUACAO"
      [] lower(col) = "sindicato" -> "Sindicato"
      [] OTHER -> col

\* df_copy.columns = [column_mapping.get(...) for col in df_copy.columns]
Standardize(df) ==
    LET Source(c) == CHOOSE d \in df.cols : column_mapping(d) = c
        cols == {column_mapping(d) : d \in df.cols}
    IN DataFrame(cols,
                 [i \in 1..Len(df.rows) |-> [c \in cols |-> df.rows[i][Source(c)]]])

\* pd.concat(dfs, ignore_index=True): union of the columns, NaN where a frame
\* lacks a column
RECURSIVE ConcatRows(_, _)
ConcatRows(dfs, cols) ==
    IF dfs = <<>> THEN <<>>
    ELSE LET df == Head(dfs)
         IN [i \in 1..Len(df.rows) |->
                [c \in cols |-> IF c \in df.cols THEN df.rows[i][c] ELSE NaN]]
            \o ConcatRows(Tail(dfs), cols)

concat(dfs) ==
    LET cols == UNION {dfs[i].cols : i \in 1..Len(dfs)}
    IN DataFrame(cols, ConcatRows(dfs, cols))

\* df.drop_duplicates(subset=[col], keep='first'); missing values compare equal
RECURSIVE KeepFirst(_, _, _)
KeepFirst(rows, col, seen) ==
    IF rows = <<>> THEN <<>>
    ELSE LET r == Head(rows)
         IN IF r[col] \in seen
            THEN KeepFirst(Tail(rows), col, seen)
            ELSE <<r>> \o KeepFirst(Tail(rows), col, seen \cup {r[col]})

\* Faulty variant: keep='last'
RECURSIVE KeepLast(_, _)
KeepLast(rows, col) ==
    IF rows = <<>> THEN <<>>
    ELSE LET r == Head(rows)
         IN IF \E i \in 2..Len(rows) : rows[i][col] = r[col]
            THEN KeepLast(Tail(rows), col)
            ELSE <<r>> \o KeepLast(Tail(rows), col)

drop_duplicates_keep_last(df, col) == DataFrame(df.cols, KeepLast(df.rows, col))

drop_duplicates(df, col) == DataFrame(df.cols, KeepFirst(df.rows, col, {}))

\* The files of an archive, in the order os.walk lists them
OtherFile == [kind |-> "other"]
UnreadableFile == [kind |-> "unreadable"]
TableFile(df) == [kind |-> "table", df |-> df]

CorruptArchive == [corrupt |-> TRUE]
Archive(files) == [files |-> files]
IsCorrupt(bundle) == DOMAIN bundle = {"corrupt"}

\* Faulty variant: a table with no row is appended too
RECURSIVE extract_zip_file_keeps_empty(_)
extract_zip_file_keeps_empty(files) ==
    IF files = <<>> THEN <<>>
    ELSE LET f == Head(files)
         IN (IF f.kind = "table" THEN <<f.df>> ELSE <<>>)
                \o extract_zip_file_keeps_empty(Tail(files))

\* extract_zip_file: the non-empty tables read from the .xlsx/.xls/.csv files;
\* a file that cannot be read is skipped
RECURSIVE extract_zip_file(_)
extract_zip_file(files) ==
    IF files = <<>> THEN <<>>
    ELSE LET f == Head(files)
         IN (IF f.kind = "table" /\ ~empty(f.df) THEN <<f.df>> ELSE <<>>)
                \o extract_zip_file(Tail(files))

unify_dataframes(dataframes) ==
    LET standardized_dfs == [i \in 1..Len(dataframes) |-> Standardize(dataframes[i])]
        unified_df == concat(standardized_dfs)
    IN IF "MATRICULA" \in unified_df.cols
       THEN drop_duplicates(unified_df, "MATRICULA")
       ELSE unified_df

ErrExtract == "Erro na extração do ZIP"
ErrNoTables == "Nenhum DataFrame válido encontrado para unificar"

DataProcessorFailure(msg) ==
    [success |-> FALSE, unified_df |-> EmptyDataFrame, total_files |-> 0,
     total_records |-> 0, columns |-> {}, error |-> msg]

DataProcessorAgent_process(zip_file_bytes) ==
    IF IsCorrupt(zip_file_bytes) THEN DataProcessorFailure(ErrExtract)
    ELSE LET dataframes == extract_zip_file(zip_file_bytes.files)
         IN IF dataframes = <<>> THEN DataProcessorFailure(ErrNoTables)
            ELSE LET unified_df == unify_dataframes(dataframes)
                 IN [success |-> TRUE, unified_df |-> unified_df,
                     total_files |-> Len(dataframes),
                     total_records |-> len(unified_df),
                     columns |-> unified_df.cols, error |-> None]

(***************************************************************************)
(* EligibilityCalculatorAgent                                              *)
(***************************************************************************)
\* An insertion-ordered dict, as a sequence of [key, ...] entries
EmptyDict == <<>>

HasKey(d, k) == \E i \in 1..Len(d) : d[i].key = k

Keys(d) == {d[i].key : i \in 1..Len(d)}

sindicato_ajustes ==
    <<[key |-> "SP", ajuste |-> 50], [key |-> "RJ", ajuste |-> 70],
      [key |-> "PR", ajuste |-> 60], [key |-> "RS", ajuste |-> 80]>>

cargos_inelegiveis == <<Word("Estagiário"), Word("Aprendiz"), Word("Diretor")>>
status_inelegiveis == <<Word("Afastado"), Word("Demitido")>>
locais_inelegiveis == <<Word("Exterior")>>

\* value in list
In(v, list) == \E i \in 1..Len(list) : list[i] = v

\* Faulty variant: a missing value matches the rule
RuleReason_missing_matches(row, col, list, label) ==
    IF col \in DOMAIN row /\ (row[col] = NaN \/ In(row[col], list))
    THEN << <<label, " ">> \o (IF row[col] = NaN THEN <<"nan">> ELSE row[col].str) >>
    ELSE <<>>

\* One rule: 'col' in row and pd.notna(row[col]) and row[col] in list,
\* giving the label f"{label} {row[col]}"
RuleReason(row, col, list, label) ==
    IF col \in DOMAIN row /\ notna(row[col]) /\ In(row[col], list)
    THEN << <<label, " ">> \o row[col].str >>
    ELSE <<>>

\* Faulty variant: the rules after the first one that matches are not evaluated
motivos_short_circuit(row) ==
    IF RuleReason(row, "Cargo", cargos_inelegiveis, "Cargo:") # <<>>
    THEN RuleReason(row, "Cargo", cargos_inelegiveis, "Cargo:")
    ELSE IF RuleReason(row, "Status", status_inelegiveis, "Status:") # <<>>
    THEN RuleReason(row, "Status", status_inelegiveis, "Status:")
    ELSE RuleReason(row, "Sindicato", locais_inelegiveis, "Localização:")

\* The list motivos of one row: cargo, then status, then sindicato
motivos(row) ==
    RuleReason(row, "Cargo", cargos_inelegiveis, "Cargo:")
        \o RuleReason(row, "Status", status_inelegiveis, "Status:")
        \o RuleReason(row, "Sindicato", locais_inelegiveis, "Localização:")

\* Faulty variant: a column the table already carries is left as it is
init_eligibility_columns_if_absent(df) ==
    LET with_flag == IF "Elegivel" \in df.cols THEN df
                     ELSE SetColumn(df, "Elegivel", Word("Sim"))
    IN IF "Motivo_Inelegibilidade" \in with_flag.cols THEN with_flag
       ELSE SetColumn(with_flag, "Motivo_Inelegibilidade", Str(<<>>))

\* df_copy['Elegivel'] = 'Sim'; df_copy['Motivo_Inelegibilidade'] = ''
init_eligibility_columns(df) ==
    SetColumn(SetColumn(df, "Elegivel", Word("Sim")), "Motivo_Inelegibilidade", Str(<<>>))

apply_eligibility_rules(df) ==
    LET df_copy == init_eligibility_columns(df)
        Patch(row) ==
            IF motivos(row) # <<>>
            THEN [row EXCEPT !["Elegivel"] = Word("Não"),
                             !["Motivo_Inelegibilidade"] =
                                 Str(join(<<";", " ">>, motivos(row)))]
            ELSE row
    IN DataFrame(df_copy.cols,
                 [i \in 1..Len(df_copy.rows) |-> Patch(df_copy.rows[i])])

\* row.get(col, default)
row_get(row, col, default) == IF col \in DOMAIN row THEN row[col] ELSE default

\* self.sindicato_ajustes.get(sindicato, 0)
sindicato_ajustes_get(sindicato) ==
    IF \E i \in 1..Len(sindicato_ajustes) : Word(sindicato_ajustes[i].key) = sindicato
    THEN (sindicato_ajustes[CHOOSE i \in 1..Len(sindicato_ajustes) :
                                Word(sindicato_ajustes[i].key) = sindicato]).ajuste
    ELSE 0

\* Faulty variant: a text is never parsed
coerce_valor_base_numbers_only(valor_base) ==
    IF notna(valor_base) /\ IsNum(valor_base) THEN valor_base.num ELSE 0

\* float(valor_base) if pd.notna(valor_base) else 0, and 0 on ValueError
coerce_valor_base(valor_base) ==
    IF notna(valor_base)
    THEN (IF float(valor_base).raised THEN 0 ELSE float(valor_base).value)
    ELSE 0

\* Faulty variant: every row is selected
eligible_mask_all_rows(row) == TRUE

\* eligible_mask = df_copy['Elegivel'] == 'Sim'
eligible_mask(row) == row["Elegivel"] = Word("Sim")

calculate_benefits(df) ==
    LET df_copy == SetColumn(SetColumn(df, "Ajuste_Sindicato", Num(0)),
                             "Valor_Beneficio_Final", Num(0))
        Patch(row) ==
            IF eligible_mask(row)
            THEN LET sindicato == row_get(row, "Sindicato", Str(<<>>))
                     valor_base ==
                         coerce_valor_base(row_get(row, "Valor_Beneficio_Base", Num(0)))
                     ajuste == sindicato_ajustes_get(sindicato)
                     valor_final == valor_base + ajuste
                 IN [row EXCEPT !["Ajuste_Sindicato"] = Num(ajuste),
                                !["Valor_Beneficio_Final"] = Num(valor_final)]
            ELSE row
    IN DataFrame(df_copy.cols,
                 [i \in 1..Len(df_copy.rows) |-> Patch(df_copy.rows[i])])

\* df[col].sum() of a numeric column
RECURSIVE ColumnSum(_, _)
ColumnSum(rows, col) ==
    IF rows = <<>> THEN 0 ELSE Head(rows)[col].num + ColumnSum(Tail(rows), col)

\* eligible_df['Sindicato'] raises KeyError when the frame has no such column
generate_summary_raises(df) == "Sindicato" \notin df.cols

\* Faulty variant: the eligible rows are not subtracted
funcionarios_inelegiveis_not_subtracted(df, eligible_df) == len(df)

\* 'funcionarios_inelegiveis': len(df) - len(eligible_df)
funcionarios_inelegiveis(df, eligible_df) == len(df) - len(eligible_df)

\* Faulty variant: the adjustments are summed instead of the final amounts
total_beneficio_geral_of_adjustments(eligible_df) ==
    ColumnSum(eligible_df.rows, "Ajuste_Sindicato")

\* 'total_beneficio_geral': float(eligible_df['Valor_Beneficio_Final'].sum())
total_beneficio_geral(eligible_df) ==
    ColumnSum(eligible_df.rows, "Valor_Beneficio_Final")

\* Faulty variant: the per-group entries are taken over all the rows
generate_summary_groups_over_all_rows(df) ==
    LET eligible_df == RowsWhere(df, "Elegivel", Word("Sim"))
    IN [total_funcionarios |-> len(df),
        funcionarios_elegiveis |-> len(eligible_df),
        funcionarios_inelegiveis |-> funcionarios_inelegiveis(df, eligible_df),
        total_beneficio_geral |-> total_beneficio_geral(eligible_df),
        resumo_por_sindicato |->
            [i \in 1..Len(sindicato_ajustes) |->
                LET sindicato == sindicato_ajustes[i].key
                    sindicato_df == RowsWhere(df, "Sindicato", Word(sindicato))
                IN [key |-> sindicato,
                    funcionarios |-> len(sindicato_df),
                    total_beneficio |->
                        ColumnSum(sindicato_df.rows, "Valor_Beneficio_Final")]]]

generate_summary(df) ==
    LET eligible_df == RowsWhere(df, "Elegivel", Word("Sim"))
    IN [total_funcionarios |-> len(df),
        funcionarios_elegiveis |-> len(eligible_df),
        funcionarios_inelegiveis |-> funcionarios_inelegiveis(df, eligible_df),
        total_beneficio_geral |-> total_beneficio_geral(eligible_df),
        resumo_por_sindicato |->
            [i \in 1..Len(sindicato_ajustes) |->
                LET sindicato == sindicato_ajustes[i].key
                    sindicato_df == RowsWhere(eligible_df, "Sindicato", Word(sindicato))
                IN [key |-> sindicato,
                    funcionarios |-> len(sindicato_df),
                    total_beneficio |->
                        ColumnSum(sindicato_df.rows, "Valor_Beneficio_Final")]]]

\* Faulty variant: a new key goes in front of the others
Increment_new_key_first(d, m) ==
    IF HasKey(d, m)
    THEN [i \in 1..Len(d) |->
             IF d[i].key = m THEN [d[i] EXCEPT !.count = @ + 1] ELSE d[i]]
    ELSE <<[key |-> m, count |-> 1]>> \o d

\* motivos[m] = motivos.get(m, 0) + 1
Increment(d, m) ==
    IF HasKey(d, m)
    THEN [i \in 1..Len(d) |->
             IF d[i].key = m THEN [d[i] EXCEPT !.count = @ + 1] ELSE d[i]]
    ELSE Append(d, [key |-> m, count |-> 1])

\* Faulty variant: the reason field is counted whole, once per record
motivo_pieces_unsplit(motivo) == <<motivo>>

\* [m.strip() for m in motivo.split(';')]
motivo_pieces(motivo) ==
    LET pieces == split(motivo, ";")
    IN [i \in 1..Len(pieces) |-> strip(pieces[i])]

\* for m in ...: motivos[m] = motivos.get(m, 0) + 1
RECURSIVE CountPieces(_, _)
CountPieces(pieces, d) ==
    IF pieces = <<>> THEN d
    ELSE CountPieces(Tail(pieces), Increment(d, Head(pieces)))

\* for motivo in ineligible_df['Motivo_Inelegibilidade']
RECURSIVE CountMotivos(_, _)
CountMotivos(rows, d) ==
    IF rows = <<>> THEN d
    ELSE LET motivo == Head(rows)["Motivo_Inelegibilidade"]
         IN CountMotivos(Tail(rows),
                         IF notna(motivo) /\ motivo # Str(<<>>)
                         THEN CountPieces(motivo_pieces(motivo.str), d)
                         ELSE d)

get_ineligibility_breakdown(df) ==
    LET ineligible_df == RowsWhere(df, "Elegivel", Word("Não"))
    IN IF empty(ineligible_df) THEN EmptyDict
       ELSE CountMotivos(ineligible_df.rows, EmptyDict)

ErrEmptyInput == "DataFrame vazio fornecido"
ErrKeySindicato == "'Sindicato'"

\* Faulty variant: the except clause returns no descriptor
EligibilityFailure_no_descriptor(msg) ==
    [success |-> FALSE, processed_df |-> EmptyDataFrame, summary |-> EmptyDict,
     ineligibility_breakdown |-> EmptyDict, error |-> None]

EligibilityFailure(msg) ==
    [success |-> FALSE, processed_df |-> EmptyDataFrame, summary |-> EmptyDict,
     ineligibility_breakdown |-> EmptyDict, error |-> msg]

\* The local tables of one call of process: eligible_df and final_df, absent
\* when the call returns before computing them
NoEngine == [absent |-> TRUE]

EngineLocals(unified_df) ==
    IF empty(unified_df) THEN [unified_df |-> unified_df]
    ELSE [unified_df |-> unified_df,
          eligible_df |-> apply_eligibility_rules(unified_df),
          final_df |-> calculate_benefits(apply_eligibility_rules(unified_df))]

EligibilityCalculatorAgent_process(unified_df) ==
    IF empty(unified_df) THEN EligibilityFailure(ErrEmptyInput)
    ELSE LET eligible_df == apply_eligibility_rules(unified_df)
             final_df == calculate_benefits(eligible_df)
         IN IF generate_summary_raises(final_df)
            THEN EligibilityFailure(ErrKeySindicato)
            ELSE [success |-> TRUE, processed_df |-> final_df,
                  summary |-> generate_summary(final_df),
                  ineligibility_breakdown |-> get_ineligibility_breakdown(final_df),
                  error |-> None]

\* Faulty variant: the rules and the payout write into the table they are given
unified_df_after_process_in_place(unified_df) ==
    calculate_benefits(apply_eligibility_rules(unified_df))

\* The table the caller holds once process has returned: apply_eligibility_rules
\* and calculate_benefits write into df.copy() only, the summary and the
\* histogram select rows and write nothing
unified_df_after_process(unified_df) == unified_df

\* A caller invokes EligibilityCalculatorAgent.process on a table of its own
\* and keeps the table
EligibilityCalculatorAgent_process_call(inputs) ==
    /\ pc = "idle"
    /\ \E unified_df \in inputs :
          /\ call' = [unified_df |-> unified_df_after_process(unified_df)]
          /\ engine' = EngineLocals(unified_df)
          /\ result' = EligibilityCalculatorAgent_process(unified_df)
    /\ pc' = "done"
    /\ visited' = <<>>
    /\ UNCHANGED <<state, analysis_agent>>

(***************************************************************************)
(* AnalysisAgent                                                           *)
(***************************************************************************)
NoAgent == [absent |-> TRUE]

\* __init__: api_key or os.getenv('GOOGLE_API_KEY'); llm stays None when there
\* is no key or when building the Gemini client raises
AnalysisAgent(api_key, env_key, init_ok) ==
    LET key == IF api_key # None THEN api_key ELSE env_key
    IN [api_key |-> key,
        llm |-> IF key # None /\ init_ok THEN "gemini-pro" ELSE None]

is_available(agent) == agent.llm # None

SubRequests == {"detailed_analysis", "executive_summary", "eligibility_explanation"}

ErrNoApiKey == "API key do Google Gemini não configurada"

\* Faulty variant: one failing sub-request fails the whole narrative
AnalysisAgent_process_all_or_nothing(agent, failed) ==
    IF ~is_available(agent) \/ failed # {}
    THEN [success |-> FALSE,
          gemini_analysis |-> [r \in SubRequests |-> "Erro"],
          error |-> "Erro"]
    ELSE [success |-> TRUE,
          gemini_analysis |-> [r \in SubRequests |-> "response.content"],
          error |-> None]

\* AnalysisAgent.process; failed is the set of sub-requests whose call to the
\* model raises, each caught inside its own method and turned into a text
AnalysisAgent_process(agent, failed) ==
    IF ~is_available(agent)
    THEN [success |-> FALSE,
          gemini_analysis |-> [r \in SubRequests |-> "não disponível"],
          error |-> ErrNoApiKey]
    ELSE [success |-> TRUE,
          gemini_analysis |->
              [r \in SubRequests |-> IF r \in failed THEN "Erro" ELSE "response.content"],
          error |-> None]

(***************************************************************************)
(* CoordinatorAgent                                                        *)
(***************************************************************************)
NoState == [absent |-> TRUE]
NoResult == [absent |-> TRUE]
NoCall == [absent |-> TRUE]

\* Faulty variant: an earlier error is never seen
Truthy_never(error) == FALSE

\* Python truthiness of state.get("error")
Truthy(error) == error # None /\ error # ""

initial_state(zip_file_bytes, use_gemini, gemini_api_key) ==
    [zip_file_bytes |-> zip_file_bytes,
     raw_dataframes |-> <<>>,
     unified_df |-> EmptyDataFrame,
     processed_df |-> EmptyDataFrame,
     summary |-> EmptyDict,
     ineligibility_breakdown |-> EmptyDict,
     gemini_analysis |-> EmptyDict,
     error |-> None,
     use_gemini |-> use_gemini,
     gemini_api_key |-> gemini_api_key]

\* Faulty variant: the edge does not look at the error
should_use_gemini_ignores_error(st) ==
    IF st.use_gemini THEN "use_gemini" ELSE "skip_gemini"

should_use_gemini(st) ==
    IF Truthy(st.error) THEN "skip_gemini"
    ELSE IF st.use_gemini THEN "use_gemini"
    ELSE "skip_gemini"

\* process, up to the start of graph.invoke: a call with its arguments drawn
\* from inputs
process(inputs) ==
    /\ pc = "idle"
    /\ \E in \in inputs :
          /\ call' = in
          /\ state' = initial_state(in.zip_file_bytes, in.use_gemini, in.gemini_api_key)
    /\ pc' = "process_data"
    /\ result' = NoResult
    /\ visited' = <<>>
    /\ engine' = NoEngine
    /\ UNCHANGED analysis_agent

process_data_node ==
    /\ pc = "process_data"
    /\ LET res == DataProcessorAgent_process(state.zip_file_bytes)
       IN state' = [state EXCEPT !.unified_df = res.unified_df,
                                 !.error = res.error]
    /\ pc' = "calculate_benefits"
    /\ visited' = Append(visited, "process_data")
    /\ UNCHANGED <<call, engine, analysis_agent, result>>

\* The node and the conditional edge that follows it
calculate_benefits_node ==
    /\ pc = "calculate_benefits"
    /\ LET res == EligibilityCalculatorAgent_process(state.unified_df)
           updated ==
               IF Truthy(state.error) THEN state
               ELSE [state EXCEPT !.processed_df = res.processed_df,
                                  !.summary = res.summary,
                                  !.ineligibility_breakdown = res.ineligibility_breakdown,
                                  !.error = res.error]
       IN /\ state' = updated
          /\ engine' = IF Truthy(state.error) THEN NoEngine
                       ELSE EngineLocals(state.unified_df)
          /\ pc' = IF should_use_gemini(updated) = "use_gemini"
                   THEN "analyze_with_gemini" ELSE "END"
    /\ visited' = Append(visited, "calculate_benefits")
    /\ UNCHANGED <<call, analysis_agent, result>>

analyze_with_gemini_node ==
    /\ pc = "analyze_with_gemini"
    /\ IF Truthy(state.error)
       THEN UNCHANGED <<state, analysis_agent>>
       ELSE \E env_key \in {None, "env-key"}, init_ok \in BOOLEAN,
               failed \in SUBSET SubRequests :
               LET agent == IF analysis_agent = NoAgent
                            THEN AnalysisAgent(state.gemini_api_key, env_key, init_ok)
                            ELSE analysis_agent
                   res == AnalysisAgent_process(agent, failed)
               IN /\ analysis_agent' = agent
                  /\ state' = [state EXCEPT !.gemini_analysis = res.gemini_analysis,
                                            !.error = res.error]
    /\ pc' = "END"
    /\ visited' = Append(visited, "analyze_with_gemini")
    /\ UNCHANGED <<call, engine, result>>

\* process, after graph.invoke: the returned dict
return ==
    /\ pc = "END"
    /\ result' = [success |-> state.error = None,
                  processed_df |-> state.processed_df,
                  summary |-> state.summary,
                  ineligibility_breakdown |-> state.ineligibility_breakdown,
                  gemini_analysis |-> state.gemini_analysis,
                  error |-> state.error]
    /\ state' = NoState
    /\ pc' = "done"
    /\ UNCHANGED <<call, engine, analysis_agent, visited>>

\* The caller has the result in hand and the coordinator waits for a new call
next_request ==
    /\ pc = "done"
    /\ pc' = "idle"
    /\ call' = NoCall
    /\ result' = NoResult
    /\ visited' = <<>>
    /\ engine' = NoEngine
    /\ UNCHANGED <<state, analysis_agent>>

(***************************************************************************)
(* Inputs                                                                  *)
(***************************************************************************)
\* A schema gives, for each column of a source file, the cell values drawn
RECURSIVE RowsOver(_)
RowsOver(schema) ==
    IF DOMAIN schema = {} THEN {<<>>}
    ELSE LET c == CHOOSE c \in DOMAIN schema : TRUE
             rest == [d \in DOMAIN schema \ {c} |-> schema[d]]
         IN {(c :> v) @@ r : v \in schema[c], r \in RowsOver(rest)}

TablesOver(schema, k) ==
    {TableFile(DataFrame(DOMAIN schema, rows)) : rows \in [1..k -> RowsOver(schema)]}

\* The files that contribute no row: one that is not tabular, one that cannot
\* be read, and a table with a header and no row
OtherFiles == {OtherFile}
SkippedFiles == {UnreadableFile, TableFile(DataFrame({"Nome"}, <<>>))}

\* Files holding k rows
FilesWithRows(schemas, zero, k) ==
    IF k = 0 THEN zero ELSE UNION {TablesOver(s, k) : s \in schemas}

\* Archives of at most nfiles files holding at most nrows rows together
RECURSIVE Bundles(_, _, _, _)
Bundles(schemas, zero, nfiles, nrows) ==
    {<<>>} \cup
    (IF nfiles = 0 THEN {}
     ELSE UNION {{<<f>> \o rest : f \in FilesWithRows(schemas, zero, k),
                                  rest \in Bundles(schemas, zero, nfiles - 1, nrows - k)} :
                 k \in 0..nrows})

Archives(schemas, zero, nfiles, nrows) ==
    {Archive(files) : files \in Bundles(schemas, zero, nfiles, nrows)}

\* Tables with an id column under two spellings, and one without
UnifySchemas ==
    {[MATRICULA |-> {NaN, Num(1), Num(2)}, Nome |-> {Word("Ana"), Word("Bia")}],
     [matricula |-> {NaN, Num(1)}, Nome |-> {Word("Caio")}],
     [Nome |-> {Word("Davi")}]}

RulesSchema ==
    [Cargo |-> {NaN, Word("Estagiário"), Word("Analista")},
     Status |-> {Word("Afastado"), Word("Ativo")},
     Sindicato |-> {Word("SP"), Word("Exterior")}]

PayoutSchema ==
    [Sindicato |-> {NaN, Word("SP"), Word("Exterior"), Word("MG")},
     Valor_Beneficio_Base |-> {NaN, Num(100), Str(<<"1", "0", "0">>), Word("abc")}]

\* A table that already carries the columns the engine computes
PrecomputedSchema ==
    [Cargo |-> {Word("Diretor"), Word("Analista")},
     sindicato |-> {Word("RS")},
     Elegivel |-> {Word("Sim"), Word("Não")},
     Motivo_Inelegibilidade |-> {Str(<<>>), Word("Outro")},
     Ajuste_Sindicato |-> {Num(5)},
     Valor_Beneficio_Final |-> {Num(7)}]

\* A table with no group column
NoSindicatoSchema ==
    [Cargo |-> {Word("Estagiário"), Word("Analista")},
     Valor_Beneficio_Base |-> {Num(100), Str(<<" ", "7">>)}]

EngineSchemas == {RulesSchema, PayoutSchema, PrecomputedSchema, NoSindicatoSchema}

\* Tables whose columns carry the names unification gives them, the synonyms
\* it renames, or these in another letter case
CanonicalSchemas ==
    {("TITULO DO CARGO" :> {Word("Estagiário"), Word("Analista")})
        @@ ("DESC. SITUACAO" :> {Word("Afastado"), Word("Ativo")})
        @@ ("Sindicato" :> {Word("SP")}),
     [titulo_cargo |-> {Word("Diretor")},
      desc_situacao |-> {Word("Demitido"), Word("Ativo")},
      sindicato |-> {Word("RS")}],
     [Matricula |-> {Num(1), Num(2)}, EMPRESA |-> {Word("Acme")},
      DESC_SITUACAO |-> {Word("Ativo")}, SINDICATO |-> {Word("PR")}],
     ("Titulo do Cargo" :> {Word("Analista"), Word("Aprendiz")})
        @@ ("Sindicato" :> {Word("RJ")})}

CoordSchemas ==
    {[Sindicato |-> {Word("SP"), Word("Exterior")}],
     [Cargo |-> {Word("Estagiário")}]}

Call(zip_file_bytes, use_gemini, gemini_api_key) ==
    [zip_file_bytes |-> zip_file_bytes, use_gemini |-> use_gemini,
     gemini_api_key |-> gemini_api_key]

\* Calls of CoordinatorAgent.process on archives of one file
CoordInputs ==
    {Call(b, g, k) :
        b \in {CorruptArchive}
                \cup Archives(CoordSchemas, OtherFiles \cup SkippedFiles, 1, MaxRows),
        g \in BOOLEAN, k \in {None, "api-key"}}

\* Calls with the narrative disabled: archives of several files for the
\* unification, archives of one wider table for the engine, under the engine's
\* column names and under the unified ones
PipelineInputs ==
    {Call(b, FALSE, None) :
        b \in {CorruptArchive}
                \cup Archives(UnifySchemas, SkippedFiles, MaxFiles, MaxRows)
                \cup Archives(EngineSchemas, {}, 1, MaxRows)
                \cup Archives(CanonicalSchemas, {}, 1, MaxRows)}

\* Tables handed to the engine directly: pd.DataFrame(), and the engine's
\* schemas with no row up to MaxRows rows
EngineTables ==
    {EmptyDataFrame} \cup
    UNION {{f.df : f \in TablesOver(s, k)} : s \in EngineSchemas, k \in 0..MaxRows}

(***************************************************************************)
(* Specifications                                                          *)
(***************************************************************************)
Init ==
    /\ pc = "idle"
    /\ call = NoCall
    /\ state = NoState
    /\ engine = NoEngine
    /\ analysis_agent = NoAgent
    /\ result = NoResult
    /\ visited = <<>>

Next ==
    \/ process(CoordInputs)
    \/ process_data_node
    \/ calculate_benefits_node
    \/ analyze_with_gemini_node
    \/ return
    \/ next_request

Spec == Init /\ [][Next]_vars

\* A step of the graph out of a node: the node function has returned and the
\* edge to one of its successors is followed
leaves(node, successors) == pc = node /\ pc' \in successors

\* graph.invoke runs the entry node, then follows the edges, each node function
\* returning (every one catches its exceptions), and process then returns.
\* Under [Next]_vars the steps that change pc from calculate_benefits are the
\* steps of calculate_benefits_node, enabled whenever pc is calculate_benefits.
Fairness ==
    /\ WF_vars(process_data_node)
    /\ WF_pc(leaves("calculate_benefits", {"analyze_with_gemini", "END"}))
    /\ WF_vars(analyze_with_gemini_node)
    /\ WF_vars(return)

FairSpec == Init /\ [][Next]_vars /\ Fairness

\* The pipeline with the narrative disabled, on the wider tables
PipelineNext ==
    \/ process(PipelineInputs)
    \/ process_data_node
    \/ calculate_benefits_node
    \/ return
    \/ next_request

PipelineSpec == Init /\ [][PipelineNext]_vars

\* The engine called on its own
EngineNext ==
    \/ EligibilityCalculatorAgent_process_call(EngineTables)
    \/ next_request

EngineSpec == Init /\ [][EngineNext]_vars

(***************************************************************************)
(* Properties                                                              *)
(***************************************************************************)
Sim == Word("Sim")
Nao == Word("Não")

Done == pc = "done"
Succeeded == pc = "done" /\ result.success

\* The archive can be opened and holds at least one readable, non-empty table
HasUsableTable(bundle) ==
    ~IsCorrupt(bundle) /\ extract_zip_file(bundle.files) # <<>>

\* Ingestion and the engine both succeed on the archive
ValidBundle(bundle) ==
    /\ DataProcessorAgent_process(bundle).success
    /\ EligibilityCalculatorAgent_process(
           DataProcessorAgent_process(bundle).unified_df).success

RowsIn(df) == 1..Len(df.rows)

\* C1: every result of CoordinatorAgent.process with success false has an
\* empty table, summary and histogram and an error; every result with success
\* true has no error.
C1_EntryContract ==
    Done =>
        IF result.success
        THEN result.error = None
        ELSE /\ result.processed_df = EmptyDataFrame
             /\ result.summary = EmptyDict
             /\ result.ineligibility_breakdown = EmptyDict
             /\ result.error # None

\* C2: with the narrative requested and the collaborator unavailable, a valid
\* bundle is still processed with success true and no error.
C2_UnavailableNarrativeIsNoError ==
    (/\ Done
     /\ call.use_gemini
     /\ ValidBundle(call.zip_file_bytes)
     /\ analysis_agent # NoAgent
     /\ ~is_available(analysis_agent))
        => (result.success /\ result.error = None)

\* C3: with the narrative disabled, every bundle holding at least one readable,
\* non-empty table is processed with success true, whatever its columns.
C3_UsableTableSucceeds ==
    (Done /\ HasUsableTable(call.zip_file_bytes)) => result.success

\* C4: in the returned table a row is ineligible exactly when its reason field
\* is not empty, and an eligible row has an empty reason field.
C4_IneligibleIffReason ==
    Succeeded =>
        \A i \in RowsIn(result.processed_df) :
            LET row == result.processed_df.rows[i]
            IN /\ row["Elegivel"] \in {Sim, Nao}
               /\ (row["Elegivel"] = Nao) <=> (row["Motivo_Inelegibilidade"] # Str(<<>>))
               /\ (row["Elegivel"] = Sim) => (row["Motivo_Inelegibilidade"] = Str(<<>>))

\* C4 witness: the source table carried its own Elegivel and
\* Motivo_Inelegibilidade columns, saying the opposite of what the rules give
\* for an eligible and for an ineligible row.
C4_Witness ==
    /\ Succeeded
    /\ "Elegivel" \in engine.unified_df.cols
    /\ \E i, j \in RowsIn(result.processed_df) :
          /\ engine.unified_df.rows[i]["Elegivel"] = Nao
          /\ engine.unified_df.rows[i]["Motivo_Inelegibilidade"] = Word("Outro")
          /\ result.processed_df.rows[i]["Elegivel"] = Sim
          /\ engine.unified_df.rows[j]["Elegivel"] = Sim
          /\ result.processed_df.rows[j]["Elegivel"] = Nao

\* C5: every ineligible row of the returned table has adjustment 0 and final
\* amount 0; a row with a positive final amount is eligible.
C5_IneligiblePaysNothing ==
    Succeeded =>
        \A i \in RowsIn(result.processed_df) :
            LET row == result.processed_df.rows[i]
            IN /\ (row["Elegivel"] = Nao) =>
                      (/\ row["Ajuste_Sindicato"] = Num(0)
                       /\ row["Valor_Beneficio_Final"] = Num(0))
               /\ (row["Valor_Beneficio_Final"].num > 0) => (row["Elegivel"] = Sim)

\* C5 witness: an ineligible row whose group has an adjustment and whose source
\* table held other values in the two amount columns.
C5_Witness ==
    /\ Succeeded
    /\ "Ajuste_Sindicato" \in engine.unified_df.cols
    /\ \E i \in RowsIn(result.processed_df) :
          /\ result.processed_df.rows[i]["Elegivel"] = Nao
          /\ result.processed_df.rows[i]["Sindicato"] = Word("RS")
          /\ engine.unified_df.rows[i]["Ajuste_Sindicato"] = Num(5)
          /\ engine.unified_df.rows[i]["Valor_Beneficio_Final"] = Num(7)

\* The adjustment the policy gives a group
PolicyAdjustment(row) ==
    IF "Sindicato" \notin DOMAIN row THEN 0
    ELSE CASE row["Sindicato"] = Word("SP") -> 50
           [] row["Sindicato"] = Word("RJ") -> 70
           [] row["Sindicato"] = Word("PR") -> 60
           [] row["Sindicato"] = Word("RS") -> 80
           [] OTHER -> 0

\* The base amount of a source row as a number: the texts "100" and " 7" read
\* as 100 and 7; a missing column, a missing value and a text that is no number
\* count 0
PolicyBase(row) ==
    IF "Valor_Beneficio_Base" \notin DOMAIN row THEN 0
    ELSE LET v == row["Valor_Beneficio_Base"]
         IN CASE IsNum(v) -> v.num
              [] v = Str(<<"1", "0", "0">>) -> 100
              [] v = Str(<<" ", "7">>) -> 7
              [] OTHER -> 0

\* C6: whenever the engine computes the payout, every eligible row gets the
\* adjustment of its group (0 for an absent, missing or unknown group) and
\* final amount = base amount + adjustment, the base amount coerced to a number
\* and 0 when missing or not a number; the payout table is always produced.
C6_PayoutOfEligibleRows ==
    (engine # NoEngine /\ ~empty(engine.unified_df)) =>
        /\ "final_df" \in DOMAIN engine
        /\ Len(engine.final_df.rows) = Len(engine.unified_df.rows)
        /\ \A i \in RowsIn(engine.final_df) :
              LET row == engine.final_df.rows[i]
              IN row["Elegivel"] = Sim =>
                    /\ row["Ajuste_Sindicato"] = Num(PolicyAdjustment(row))
                    /\ row["Valor_Beneficio_Final"] =
                           Num(PolicyBase(row) + PolicyAdjustment(row))

\* C6 witness: group SP, base amount the text "100", final amount 150.
C6_Witness ==
    /\ engine # NoEngine
    /\ "final_df" \in DOMAIN engine
    /\ "Valor_Beneficio_Base" \in engine.final_df.cols
    /\ "Sindicato" \in engine.final_df.cols
    /\ \E i \in RowsIn(engine.final_df) :
          /\ engine.final_df.rows[i]["Sindicato"] = Word("SP")
          /\ engine.final_df.rows[i]["Valor_Beneficio_Base"] = Str(<<"1", "0", "0">>)
          /\ engine.final_df.rows[i]["Valor_Beneficio_Final"] = Num(150)

EligibleRows(df) == {i \in RowsIn(df) : df.rows[i]["Elegivel"] = Sim}
IneligibleRows(df) == {i \in RowsIn(df) : df.rows[i]["Elegivel"] = Nao}

\* C7: the eligible and ineligible counts of the summary add up to its total,
\* the total is the row count of the returned table, and the two counts are
\* the numbers of rows marked Sim and marked Não.
C7_SummaryCounts ==
    Succeeded =>
        /\ result.summary.funcionarios_elegiveis + result.summary.funcionarios_inelegiveis
               = result.summary.total_funcionarios
        /\ result.summary.total_funcionarios = Len(result.processed_df.rows)
        /\ result.summary.funcionarios_elegiveis
               = Cardinality(EligibleRows(result.processed_df))
        /\ result.summary.funcionarios_inelegiveis
               = Cardinality(IneligibleRows(result.processed_df))

\* C7 witness: a returned table with an eligible and an ineligible row.
C7_Witness ==
    /\ Succeeded
    /\ EligibleRows(result.processed_df) # {}
    /\ IneligibleRows(result.processed_df) # {}

RECURSIVE SumOver(_, _)
SumOver(df, rows) ==
    IF rows = {} THEN 0
    ELSE LET i == CHOOSE i \in rows : TRUE
         IN df.rows[i]["Valor_Beneficio_Final"].num + SumOver(df, rows \ {i})

\* C8: the total of the summary is the sum of the final amounts of the
\* eligible rows of the returned table, and also of all its rows.
C8_SummaryTotal ==
    Succeeded =>
        /\ result.summary.total_beneficio_geral
               = SumOver(result.processed_df, EligibleRows(result.processed_df))
        /\ result.summary.total_beneficio_geral
               = SumOver(result.processed_df, RowsIn(result.processed_df))

\* C8 witness: two eligible rows with different positive amounts.
C8_Witness ==
    /\ Succeeded
    /\ \E i, j \in EligibleRows(result.processed_df) :
          /\ result.processed_df.rows[i]["Valor_Beneficio_Final"] = Num(150)
          /\ result.processed_df.rows[j]["Valor_Beneficio_Final"] = Num(100)
    /\ result.summary.total_beneficio_geral = 250

\* The labels of the rules a row matches, from its source columns
MatchedLabels(row) ==
    (IF "Cargo" \in DOMAIN row
        /\ row["Cargo"] \in {Word("Estagiário"), Word("Aprendiz"), Word("Diretor")}
     THEN {<<"Cargo:", " ">> \o row["Cargo"].str} ELSE {})
    \cup
    (IF "Status" \in DOMAIN row
        /\ row["Status"] \in {Word("Afastado"), Word("Demitido")}
     THEN {<<"Status:", " ">> \o row["Status"].str} ELSE {})
    \cup
    (IF "Sindicato" \in DOMAIN row /\ row["Sindicato"] = Word("Exterior")
     THEN {<<"Localização:", " ">> \o row["Sindicato"].str} ELSE {})

RECURSIVE SumCounts(_)
SumCounts(d) == IF d = <<>> THEN 0 ELSE Head(d).count + SumCounts(Tail(d))

RECURSIVE SumMatched(_, _)
SumMatched(df, rows) ==
    IF rows = {} THEN 0
    ELSE LET i == CHOOSE i \in rows : TRUE
         IN Cardinality(MatchedLabels(df.rows[i])) + SumMatched(df, rows \ {i})

\* C9: the values of the histogram add up to the number of matched rules
\* summed over the ineligible rows, each key counts the ineligible rows that
\* carry it, and the keys are exactly the labels carried by ineligible rows.
C9_HistogramTotals ==
    Succeeded =>
        LET df == result.processed_df
            h == result.ineligibility_breakdown
        IN /\ SumCounts(h) = SumMatched(df, IneligibleRows(df))
           /\ Keys(h) = UNION {MatchedLabels(df.rows[i]) : i \in IneligibleRows(df)}
           /\ \A k \in 1..Len(h) :
                 /\ h[k].count = Cardinality({i \in IneligibleRows(df) :
                                                 h[k].key \in MatchedLabels(df.rows[i])})
                 /\ \A l \in 1..Len(h) : h[k].key = h[l].key => k = l
           /\ (IneligibleRows(df) = {}) => (h = EmptyDict)

\* C9 witness: one row with three reasons and another sharing one of them.
C9_Witness ==
    /\ Succeeded
    /\ Len(result.ineligibility_breakdown) = 3
    /\ SumCounts(result.ineligibility_breakdown) = 4
    /\ \E i \in IneligibleRows(result.processed_df) :
          Cardinality(MatchedLabels(result.processed_df.rows[i])) = 3

\* The standardized tables of the call's archive, concatenated
Concatenation ==
    LET dfs == extract_zip_file(call.zip_file_bytes.files)
    IN concat([i \in 1..Len(dfs) |-> Standardize(dfs[i])])

RECURSIVE TotalRows(_)
TotalRows(dfs) == IF dfs = <<>> THEN 0 ELSE Len(Head(dfs).rows) + TotalRows(Tail(dfs))

Unified == pc = "calculate_benefits" /\ state.error = None

\* C10: once unified, a table with the id column has no two rows with the
\* same id, the row kept for an id is the first row of the concatenation that
\* carries it, whole, in concatenation order, and the table has at most as
\* many rows as the sources together, fewer when an id is repeated.
C10_FirstOccurrenceWins ==
    (Unified /\ "MATRICULA" \in state.unified_df.cols) =>
        LET u == state.unified_df.rows
            c == Concatenation.rows
            First(id) == CHOOSE i \in 1..Len(c) :
                             /\ c[i]["MATRICULA"] = id
                             /\ \A j \in 1..(i - 1) : c[j]["MATRICULA"] # id
        IN /\ \A i, j \in 1..Len(u) : u[i]["MATRICULA"] = u[j]["MATRICULA"] => i = j
           /\ {u[i]["MATRICULA"] : i \in 1..Len(u)} = {c[i]["MATRICULA"] : i \in 1..Len(c)}
           /\ \A i \in 1..Len(u) : u[i] = c[First(u[i]["MATRICULA"])]
           /\ \A i, j \in 1..Len(u) :
                 i < j => First(u[i]["MATRICULA"]) < First(u[j]["MATRICULA"])
           /\ Len(u) <= TotalRows(extract_zip_file(call.zip_file_bytes.files))
           /\ (\E i, j \in 1..Len(c) : i # j /\ c[i]["MATRICULA"] = c[j]["MATRICULA"])
                  => Len(u) < TotalRows(extract_zip_file(call.zip_file_bytes.files))

\* C10 witness: two files each with a row of id 1 and different names; the
\* unified table has the first file's row alone.
C10_Witness ==
    /\ Unified
    /\ Len(call.zip_file_bytes.files) = 2
    /\ \A i \in 1..2 : call.zip_file_bytes.files[i].kind = "table"
    /\ Concatenation.rows = <<[MATRICULA |-> Num(1), Nome |-> Word("Ana")],
                              [MATRICULA |-> Num(1), Nome |-> Word("Caio")]>>
    /\ state.unified_df.rows = <<[MATRICULA |-> Num(1), Nome |-> Word("Ana")]>>

\* The node has run in the current call
Visited(node) == \E i \in 1..Len(visited) : visited[i] = node

\* The ingestion step of the current call has run and failed
IngestionFailed ==
    /\ call # NoCall
    /\ Visited("process_data")
    /\ ~DataProcessorAgent_process(call.zip_file_bytes).success

\* C11: whenever the ingestion step of a run fails, the engine is not invoked
\* in that run and neither is the narrative step, the returned error is the
\* error descriptor of the ingestion, and the table, the summary and the
\* histogram returned are the initial empty values.
C11_IngestionFailureSkipsEngine ==
    IngestionFailed =>
        /\ engine = NoEngine
        /\ pc # "analyze_with_gemini"
        /\ ~Visited("analyze_with_gemini")
        /\ Done =>
              /\ ~result.success
              /\ result.error = DataProcessorAgent_process(call.zip_file_bytes).error
              /\ result.processed_df = EmptyDataFrame
              /\ result.summary = EmptyDict
              /\ result.ineligibility_breakdown = EmptyDict
              /\ result.gemini_analysis = EmptyDict

\* C11 witness: a call asking for the narrative on bytes that are no archive
\* has gone through the graph and returned the extraction error.
C11_Witness ==
    /\ Done
    /\ call.use_gemini
    /\ IsCorrupt(call.zip_file_bytes)
    /\ Visited("calculate_benefits")
    /\ result.error = ErrExtract

\* The files of an archive that are tabular, readable and hold a row
UsableFiles(bundle) ==
    SelectSeq(bundle.files, LAMBDA f : f.kind = "table" /\ Len(f.df.rows) > 0)

\* The ingestion step of the current call has run
Ingested == pc = "calculate_benefits" /\ ~IsCorrupt(call.zip_file_bytes)

C13_EmptyTableFails ==
    (Done /\ Len(call.unified_df.rows) = 0) =>
        /\ ~result.success
        /\ result.error # None
        /\ result.error = ErrEmptyInput
        /\ result.processed_df = EmptyDataFrame
        /\ result.summary = EmptyDict
        /\ result.ineligibility_breakdown = EmptyDict

\* C13 witness: the engine has returned on a table with the group column and
\* no row.
C13_Witness ==
    /\ Done
    /\ "Sindicato" \in call.unified_df.cols
    /\ call.unified_df.rows = <<>>
    /\ engine = [unified_df |-> call.unified_df]
    /\ result.error = ErrEmptyInput

\* A tagged result: a success flag and an error descriptor, absent only on
\* success
TaggedResult(r) ==
    /\ {"success", "error"} \subseteq DOMAIN r
    /\ r.success \in BOOLEAN
    /\ ~r.success => r.error # None

\* The archive makes extract_zip_file or unify_dataframes raise
IngestionFault(bundle) == IsCorrupt(bundle) \/ UsableFiles(bundle) = <<>>

\* C14: the three process methods return a tagged result on every input; when
\* the bytes are no readable archive, when no table can be unified, or when
\* the table makes the engine raise, the component returns success false with
\* an error descriptor and so does the coordinator.
C14_FaultsAreTagged ==
    Done =>
        LET ingestion == DataProcessorAgent_process(call.zip_file_bytes)
        IN /\ TaggedResult(ingestion)
           /\ TaggedResult(result)
           /\ IngestionFault(call.zip_file_bytes) =>
                 /\ ~ingestion.success /\ ingestion.error # None
                 /\ ~result.success /\ result.error # None
           /\ engine # NoEngine =>
                 LET res == EligibilityCalculatorAgent_process(engine.unified_df)
                 IN /\ TaggedResult(res)
                    /\ "Sindicato" \notin engine.unified_df.cols =>
                          /\ ~res.success /\ res.error # None
                          /\ ~result.success /\ result.error = res.error

\* C14 witness: a run on a table with no group column, whose summary raises
\* KeyError inside the engine, has returned the tagged failure.
C14_Witness ==
    /\ Done
    /\ engine # NoEngine
    /\ "final_df" \in DOMAIN engine
    /\ "Sindicato" \notin engine.final_df.cols
    /\ ~result.success
    /\ result.error = ErrKeySindicato

\* The keys an AnalysisAgent built for the current call can hold: the call's
\* own key, or the environment's when the call carries none
KeysOfCall ==
    IF call.gemini_api_key # None THEN {call.gemini_api_key} ELSE {None, "env-key"}

\* C15: no state written by one call of CoordinatorAgent.process is read by a
\* later call: the narrative collaborator that served a call was built in that
\* call, from that call's own gemini_api_key, whatever calls came before.
C15_NoStateAcrossCalls ==
    (Done /\ Visited("analyze_with_gemini")) =>
        /\ analysis_agent # NoAgent
        /\ analysis_agent.api_key \in KeysOfCall

\* The sub-requests whose narrative is the placeholder of a failure
Placeholders(analysis) == {r \in SubRequests : analysis[r] = "Erro"}

\* C16: when the narrative collaborator is available, a failing sub-request
\* only puts a placeholder in its own piece of narrative: every piece is the
\* model's answer or a placeholder, the table, summary and histogram returned
\* are the ones the engine computed, and the run has success true, no error.
C16_NarrativeFailureIsolated ==
    (Done /\ Visited("analyze_with_gemini") /\ is_available(analysis_agent)) =>
        /\ result.success
        /\ result.error = None
        /\ DOMAIN result.gemini_analysis = SubRequests
        /\ \A r \in SubRequests :
              result.gemini_analysis[r] \in {"Erro", "response.content"}
        /\ result.processed_df = engine.final_df
        /\ result.summary = generate_summary(engine.final_df)
        /\ result.ineligibility_breakdown = get_ineligibility_breakdown(engine.final_df)

\* C16 witness: the executive summary alone failed; the other two narratives
\* are there, next to a table with an ineligible row.
C16_Witness ==
    /\ Done
    /\ Visited("analyze_with_gemini")
    /\ is_available(analysis_agent)
    /\ Placeholders(result.gemini_analysis) = {"executive_summary"}
    /\ result.gemini_analysis["detailed_analysis"] = "response.content"
    /\ result.gemini_analysis["eligibility_explanation"] = "response.content"
    /\ result.success
    /\ result.ineligibility_breakdown # EmptyDict

\* The reasons stored in a row of the returned table
StoredReasons(row) ==
    IF row["Motivo_Inelegibilidade"] = Str(<<>>) THEN {}
    ELSE LET pieces == motivo_pieces(row["Motivo_Inelegibilidade"].str)
         IN {pieces[i] : i \in 1..Len(pieces)}

\* C17: in the end-to-end pipeline a record whose unified job title column
\* (TITULO DO CARGO) holds an excluded role, or whose unified status column
\* (DESC. SITUACAO) holds an excluded status, is returned ineligible with the
\* role or status reason.
C17_RulesReadUnifiedFields ==
    Succeeded =>
        \A i \in RowsIn(result.processed_df) :
            LET row == result.processed_df.rows[i]
            IN /\ ("TITULO DO CARGO" \in DOMAIN row
                      /\ row["TITULO DO CARGO"]
                            \in {Word("Estagiário"), Word("Aprendiz"), Word("Diretor")})
                    => (/\ row["Elegivel"] = Nao
                        /\ (<<"Cargo:", " ">> \o row["TITULO DO CARGO"].str)
                               \in StoredReasons(row))
               /\ ("DESC. SITUACAO" \in DOMAIN row
                      /\ row["DESC. SITUACAO"] \in {Word("Afastado"), Word("Demitido")})
                    => (/\ row["Elegivel"] = Nao
                        /\ (<<"Status:", " ">> \o row["DESC. SITUACAO"].str)
                               \in StoredReasons(row))

\* The engine of the current call has evaluated the rules
RulesApplied == engine # NoEngine /\ "eligible_df" \in DOMAIN engine

\* The label of one rule on a source row, when the rule matches
ExpectedReason(row, col, values, label) ==
    IF col \in DOMAIN row /\ row[col] \in values
    THEN << <<label, " ">> \o row[col].str >>
    ELSE <<>>

\* The labels of the rules a source row matches: role, status, group
ExpectedReasons(row) ==
    ExpectedReason(row, "Cargo",
                   {Word("Estagiário"), Word("Aprendiz"), Word("Diretor")}, "Cargo:")
        \o ExpectedReason(row, "Status", {Word("Afastado"), Word("Demitido")}, "Status:")
        \o ExpectedReason(row, "Sindicato", {Word("Exterior")}, "Localização:")

\* C18: the reason field apply_eligibility_rules stores for a record lists the
\* label of every rule that matched and of no other, in the order role,
\* status, group; it is empty when none matched, and splitting it as the
\* histogram does gives back exactly that list.
C18_AllRulesInOrder ==
    RulesApplied =>
        \A i \in RowsIn(engine.eligible_df) :
            LET expected == ExpectedReasons(engine.unified_df.rows[i])
                stored == engine.eligible_df.rows[i]["Motivo_Inelegibilidade"]
            IN /\ IsStr(stored)
               /\ IF expected = <<>>
                  THEN stored = Str(<<>>)
                  ELSE /\ stored # Str(<<>>)
                       /\ motivo_pieces(stored.str) = expected

\* C18 witness: a record matching the three rules carries the three reasons.
C18_Witness ==
    /\ RulesApplied
    /\ \E i \in RowsIn(engine.eligible_df) :
          /\ engine.unified_df.rows[i] =
                 [Cargo |-> Word("Estagiário"), Status |-> Word("Afastado"),
                  Sindicato |-> Word("Exterior")]
          /\ motivo_pieces(engine.eligible_df.rows[i]["Motivo_Inelegibilidade"].str) =
                 << <<"Cargo:", " ", "Estagiário">>, <<"Status:", " ", "Afastado">>,
                    <<"Localização:", " ", "Exterior">> >>

\* The field of a rule is absent from the row, null, or outside the policy set
Unmatched(row, col, values) ==
    col \notin DOMAIN row \/ row[col] = NaN \/ row[col] \notin values

\* The row stores a reason of the rule with this label
HasReasonOf(row, label) == \E m \in StoredReasons(row) : m # <<>> /\ m[1] = label

\* C19: a rule whose field is absent from the table, null in the record, or
\* holds a value outside the policy set (Estagiário/Aprendiz/Diretor,
\* Afastado/Demitido, Exterior) contributes no reason, and a record with the
\* three fields absent, null or outside the sets is eligible.
C19_AbsentFieldNeverExcludes ==
    RulesApplied =>
        \A i \in RowsIn(engine.eligible_df) :
            LET src == engine.unified_df.rows[i]
                row == engine.eligible_df.rows[i]
                cargo == Unmatched(src, "Cargo",
                             {Word("Estagiário"), Word("Aprendiz"), Word("Diretor")})
                status == Unmatched(src, "Status", {Word("Afastado"), Word("Demitido")})
                local == Unmatched(src, "Sindicato", {Word("Exterior")})
            IN /\ cargo => ~HasReasonOf(row, "Cargo:")
               /\ status => ~HasReasonOf(row, "Status:")
               /\ local => ~HasReasonOf(row, "Localização:")
               /\ (cargo /\ status /\ local) =>
                      (/\ row["Elegivel"] = Sim
                       /\ row["Motivo_Inelegibilidade"] = Str(<<>>))

\* C19 witness: a table with no role and no status column and a record whose
\* group is null; the record is eligible.
C19_Witness ==
    /\ RulesApplied
    /\ "Cargo" \notin engine.unified_df.cols
    /\ "Status" \notin engine.unified_df.cols
    /\ \E i \in RowsIn(engine.eligible_df) :
          /\ engine.unified_df.rows[i]["Sindicato"] = NaN
          /\ engine.eligible_df.rows[i]["Elegivel"] = Sim
          /\ engine.eligible_df.rows[i]["Motivo_Inelegibilidade"] = Str(<<>>)

\* The rows of a table whose id is missing, in order
NullIdRows(rows) == SelectSeq(rows, LAMBDA r : r["MATRICULA"] = NaN)

\* C20: when the concatenated table has the id column, every row of the
\* concatenation whose id is missing is in the unified table: rows lacking an
\* id are not deduplicated against each other.
C20_NullIdRowsAllKept ==
    (Unified /\ "MATRICULA" \in state.unified_df.cols) =>
        NullIdRows(state.unified_df.rows) = NullIdRows(Concatenation.rows)

\* The group keys of the fixed adjustment table
GroupKeys == <<"SP", "RJ", "PR", "RS">>

\* The eligible rows of a table whose group is the key
EligibleOfGroup(df, key) ==
    {i \in EligibleRows(df) : df.rows[i]["Sindicato"] = Word(key)}

RECURSIVE SumFuncionarios(_)
SumFuncionarios(resumo) ==
    IF resumo = <<>> THEN 0
    ELSE Head(resumo).funcionarios + SumFuncionarios(Tail(resumo))

ComputedColumns ==
    {"Elegivel", "Motivo_Inelegibilidade", "Ajuste_Sindicato", "Valor_Beneficio_Final"}

CanonicalName(col) ==
    CASE col \in {"matricula", "Matricula", "MATRICULA"} -> "MATRICULA"
      [] col \in {"empresa", "EMPRESA"} -> "EMPRESA"
      [] col \in {"titulo_cargo", "Titulo_Cargo", "TITULO DO CARGO", "Titulo do Cargo"}
            -> "TITULO DO CARGO"
      [] col \in {"desc_situacao", "DESC_SITUACAO", "DESC. SITUACAO"} -> "DESC. SITUACAO"
      [] col \in {"sindicato", "Sindicato", "SINDICATO"} -> "Sindicato"
      [] OTHER -> col

\* The column names of the usable tables of the call's archive
SourceColumns ==
    UNION {UsableFiles(call.zip_file_bytes)[i].df.cols :
              i \in 1..Len(UsableFiles(call.zip_file_bytes))}

\* C23: the columns of the unified table are the source columns, each under
\* the canonical name of its field (MATRICULA, EMPRESA, TITULO DO CARGO,
\* DESC. SITUACAO, Sindicato) whatever its letter case, a letter-case variant
\* of a canonical name included, and every other column under its own name.
C23_ColumnsCollapseOnCanonicalNames ==
    Unified =>
        state.unified_df.cols = {CanonicalName(c) : c \in SourceColumns}

\* The reasons met when the ineligible rows are scanned in table order, each
\* row's reasons in the order role, status, group
RECURSIVE ReasonScan(_)
ReasonScan(rows) ==
    IF rows = <<>> THEN <<>>
    ELSE (IF Head(rows)["Elegivel"] = Nao THEN ExpectedReasons(Head(rows)) ELSE <<>>)
             \o ReasonScan(Tail(rows))

\* A sequence without the repetitions of its elements, first occurrences kept
RECURSIVE FirstSeen(_)
FirstSeen(seq) ==
    IF seq = <<>> THEN <<>>
    ELSE LET rest == FirstSeen(SubSeq(seq, 1, Len(seq) - 1))
             last == seq[Len(seq)]
         IN IF \E i \in 1..Len(rest) : rest[i] = last THEN rest ELSE Append(rest, last)

\* C24: the keys of the histogram are in first-seen order: the position of a
\* reason among the keys is the position of its first occurrence in the scan
\* of the ineligible rows in table order, each row's reasons in the order
\* role, status, group; the keys are not sorted.
C24_HistogramKeysFirstSeen ==
    Succeeded =>
        LET h == result.ineligibility_breakdown
        IN [k \in 1..Len(h) |-> h[k].key] = FirstSeen(ReasonScan(result.processed_df.rows))

\* C24 witness: the first row is excluded for status and group, the second for
\* role and the same status; the keys come status, group, role, which is not
\* their sorted order.
C24_Witness ==
    /\ Succeeded
    /\ result.ineligibility_breakdown =
           <<[key |-> <<"Status:", " ", "Afastado">>, count |-> 2],
             [key |-> <<"Localização:", " ", "Exterior">>, count |-> 1],
             [key |-> <<"Cargo:", " ", "Estagiário">>, count |-> 1]>>

\* The nodes of the graph in the order of its edges
NodeOrder == <<"process_data", "calculate_benefits", "analyze_with_gemini">>

IsPrefix(s, t) == Len(s) <= Len(t) /\ \A i \in 1..Len(s) : s[i] = t[i]

\* The nodes visited so far in the current run are an initial part of the
\* fixed order, each once, and the narrative node is entered, and was visited
\* at the end of the run, exactly when the call asks for the narrative and
\* ingestion and engine both succeeded
NodesInOrder ==
    /\ IsPrefix(visited, NodeOrder)
    /\ pc = "process_data" => visited = <<>>
    /\ pc = "calculate_benefits" => visited = SubSeq(NodeOrder, 1, 1)
    /\ pc = "analyze_with_gemini" =>
          /\ visited = SubSeq(NodeOrder, 1, 2)
          /\ call.use_gemini
          /\ ValidBundle(call.zip_file_bytes)
    /\ pc \in {"END", "done"} =>
          /\ Len(visited) >= 2
          /\ Visited("analyze_with_gemini")
                 <=> (call.use_gemini /\ ValidBundle(call.zip_file_bytes))

\* C25: every run of the graph visits process_data, calculate_benefits and
\* then possibly analyze_with_gemini, each at most once and in that order,
\* analyze_with_gemini exactly when use_gemini is true and no error is
\* recorded after calculate_benefits; and every run that has started returns.
C25_RunsTerminateInOrder ==
    /\ []NodesInOrder
    /\ (pc = "process_data") ~> Done

\* C25 witness: a run asking for the narrative has returned after the three
\* nodes.
C25_Witness ==
    /\ Done
    /\ call.use_gemini
    /\ visited = NodeOrder

====
